---- MODULE Spec2Model ----
(***************************************************************************)
(* A model of the resource leasing subsystem of screen-13:                 *)
(*   - gpu/pool/mod.rs       Pool: idle queues keyed by creation           *)
(*                           parameters, acquire operations, render-pass   *)
(*                           registry, drain;                              *)
(*   - driver/cmd_buf.rs     CommandBuffer: fence, droppables, teardown;   *)
(*   - driver/descriptor_set.rs  DescriptorPool / DescriptorSet.           *)
(* Pooled objects are identified by the order of their construction; an    *)
(* idle queue is a sequence of identities whose last element is the back   *)
(* of the VecDeque.                                                        *)
(***************************************************************************)
EXTENDS Integers, Sequences, FiniteSets, TLC

\* ------------------------------------------------------------------ bounds
\* Number of pooled objects constructed in one run.
MaxObjs == 3
\* Number of textures constructed in one run: a texture miss builds two, and
\* two keys must be able to miss.
MaxTextures == 4
\* Largest amount (len / size / max_sets) a request asks for.
MaxCap == 2
\* Number of droppables handed to push_fenced_drop in one run.
MaxDrops == 2
\* Largest max_sets a DescriptorPool is created with.
MaxSets == 3
\* Number of descriptor sets handed out in one run.
MaxSetIds == 5

\* --------------------------------------------------------------- constants
DEFAULT_LRU_THRESHOLD == 8

\* ------------------------------------------------------------ input domains
Families == {0, 1}
ComputeModes == {"CalculateVertexAttributes", "DecodeRgbRgba"}
UsageEmpty == 0
Usages == {UsageEmpty, 1}
DescRangeInputs == { << <<"Sampler", 1>>, <<"UniformBuffer", 1>> >>,
                     << <<"UniformBuffer", 1>>, <<"Sampler", 1>> >> }
GraphicsModes == {"BlendScreen", "Font"}
RenderPassModes == {"Color", "Draw"}
SubpassIdxs == {0}
MemoryTypes == {0, 1}
Dims == {1, 2}
Layouts == {"General", "ShaderReadOnlyOptimal"}
Amounts == 1..MaxCap
Kinds == {"cmd_pool", "compiler", "compute", "data", "desc_pool", "fence", "graphics",
          "memory", "texture"}

VARIABLES
    \* struct Pool
    cmd_pools, compilers, computes, data, desc_pools, fences, graphics,
    lru_threshold, memories, render_passes, textures,
    \* every pooled object constructed so far, by identity
    objs,
    \* the live Lease values
    leases,
    \* the resource kind the run leases: Lease<T> and PoolRef<T> are typed by T,
    \* so no object moves between queues of different kinds, and the kinds are
    \* explored one run each
    kind_in_use,
    \* the thread is unwinding from a panic
    panicking,
    \* the driver may fail to construct an object in this run
    driver_faults,
    \* the operation performed last and what it returned
    last,
    \* struct CommandBuffer and the driver objects it owns
    cb, cb_fence, cb_pending, droppables, freed,
    \* the device as the driver reports it: "ok", "lost" or "failing"
    device,
    \* droppables handed to push_fenced_drop so far; the destroyed ones, each with
    \* who destroyed it, what has_executed would have reported then, and whether
    \* work had been submitted
    pushed, graves,
    \* how the caller has seen the current submission complete: "no", "polled"
    \* (has_executed returned Ok(true)) or "waited" (wait_until_executed returned Ok)
    confirmed,
    \* work has been submitted with this buffer
    cb_submitted,
    \* the CommandBuffer call made last and its result
    cb_last,
    \* the native descriptor pool ("none", "live", "destroyed") and its info.max_sets
    dp, dp_max_sets,
    \* strong count of Shared<DescriptorPool>, and whether the creator holds one
    dp_refs, dp_handle,
    \* the live DescriptorSet values, and the sets allocated in the native pool
    dp_sets, dp_allocated,
    \* number of descriptor sets handed out so far
    dp_next,
    \* the DescriptorPool call made last, its result, and the state before it
    dp_last

poolVars == <<cmd_pools, compilers, computes, data, desc_pools, fences, graphics,
              lru_threshold, memories, render_passes, textures, objs, leases,
              kind_in_use, panicking, driver_faults, last>>

cbVars == <<cb, cb_fence, cb_pending, droppables, freed, device, pushed, graves,
            confirmed, cb_submitted, cb_last>>

dpVars == <<dp, dp_max_sets, dp_refs, dp_handle, dp_sets, dp_allocated, dp_next, dp_last>>

driverVars == <<cbVars, dpVars>>

vars == <<poolVars, driverVars>>

\* -------------------------------------------------------------- pure helpers
None == 0

\* item.capacity() / Memory::size(&item) / item.max_sets()
Capacity(item) == objs[item].cap

\* A fitness test that accepts the objects that are too small.
FitsReversed(item, amount) == Capacity(item) <= amount

\* A fitness test that accepts an exact match only.
FitsExactly(item, amount) == Capacity(item) = amount

\* The closures handed to remove_last_by: |item| item.capacity() >= len, ...
Fits(item, amount) == Capacity(item) >= amount

FitIdxs(items, amount) == {idx \in 1..Len(items) : Fits(items[idx], amount)}

RemoveAt(items, idx) == SubSeq(items, 1, idx - 1) \o SubSeq(items, idx + 1, Len(items))

\* A scan that returns the match and leaves it in the queue.
remove_last_by_keeping(items, amount) ==
    LET hits == FitIdxs(items, amount)
    IN  IF hits = {}
        THEN [found |-> FALSE, item |-> None, rest |-> items]
        ELSE LET idx == CHOOSE i \in hits : \A j \in hits : i <= j
             IN  [found |-> TRUE, item |-> items[idx], rest |-> items]

\* fn remove_last_by: scans idx in 0..items.len() and removes the first match.
remove_last_by(items, amount) ==
    LET hits == FitIdxs(items, amount)
    IN  IF hits = {}
        THEN [found |-> FALSE, item |-> None, rest |-> items]
        ELSE LET idx == CHOOSE i \in hits : \A j \in hits : i <= j
             IN  [found |-> TRUE, item |-> items[idx], rest |-> RemoveAt(items, idx)]

\* A pop that destroys the object in front of the one it returns.
pop_back_losing(items) ==
    IF Len(items) = 0
    THEN [found |-> FALSE, item |-> None, rest |-> items]
    ELSE [found |-> TRUE, item |-> items[Len(items)],
          rest |-> IF Len(items) = 1 THEN << >> ELSE SubSeq(items, 1, Len(items) - 2)]

\* VecDeque::pop_back
pop_back(items) ==
    IF Len(items) = 0
    THEN [found |-> FALSE, item |-> None, rest |-> items]
    ELSE [found |-> TRUE, item |-> items[Len(items)],
          rest |-> SubSeq(items, 1, Len(items) - 1)]

\* An entry that forgets the queues of the other keys.
EntryAlone(map, key) == key :> (IF key \in DOMAIN map THEN map[key] ELSE << >>)

\* HashMap::entry(key).or_insert_with(Default::default)
Entry(map, key) == IF key \in DOMAIN map THEN map ELSE map @@ (key :> <<>>)

\* Result<T, DriverError>
Ok(v) == [ok |-> TRUE, val |-> v, err |-> "none"]
Err(e) == [ok |-> FALSE, val |-> FALSE, err |-> e]

\* ------------------------------------------------- constructors (not in src/)
NewObj(kind, key, cap, layout) ==
    [kind |-> kind, key |-> key, cap |-> cap, mark |-> FALSE, layout |-> layout]

\* CommandPool::new(driver, family): an empty command pool.
CommandPoolNew(family) == NewObj("cmd_pool", family, 0, None)
\* Compiler: Default::default()
CompilerDefault == NewObj("compiler", None, 0, None)
\* Compute::calc_vertex_attrs / Compute::decode_rgb_rgba: not given max_sets,
\* so the capacity of the pipeline is the constructor's own choice.
ComputeCtor(mode, own_max_sets) == NewObj("compute", mode, own_max_sets, None)
\* Data::new(driver, len, usage)
DataNew(len, usage) == NewObj("data", usage, len, None)
\* DescriptorPool::new(driver, max_sets, desc_ranges)
DescriptorPoolNew(max_sets, key) == NewObj("desc_pool", key, max_sets, None)
\* Fence::new(driver): unsignaled.
FenceNew == NewObj("fence", None, 0, None)
\* Graphics::blend_normal, ..., Graphics::texture (driver, subpass, max_sets)
GraphicsCtor(key, max_sets) == NewObj("graphics", key, max_sets, None)
\* Memory::new(driver, mem_type, size)
MemoryNew(mem_type, size) == NewObj("memory", mem_type, size, None)
\* Texture::new(driver, dims, fmt, layout, usage, layers, samples, mips)
TextureNew(key, layout) == NewObj("texture", key, 0, layout)

\* Lease::new(item, queue): the lease owns the item and refers to the queue.
LeaseNew(item, kind, key) == Append(leases, [obj |-> item, kind |-> kind, key |-> key])

\* ----------------------------------------------------------- key derivation
\* desc_ranges.map(|r| (r.ty, r.count)).collect(): the order is kept.
DescriptorPoolKey(desc_ranges) == [i \in 1..Len(desc_ranges) |-> desc_ranges[i]]

GraphicsKey(graphics_mode, render_pass_mode, subpass_idx) ==
    [graphics_mode |-> graphics_mode, render_pass_mode |-> render_pass_mode,
     subpass_idx |-> subpass_idx]

\* A lookup of the queue under a key other than the requested one.
MissQueueKeyOfColor(graphics_mode, render_pass_mode, subpass_idx) ==
    GraphicsKey(graphics_mode, "Color", subpass_idx)

\* The key of the queue the lease of a graphics_sets miss is bound to.
MissQueueKey(graphics_mode, render_pass_mode, subpass_idx) ==
    GraphicsKey(graphics_mode, render_pass_mode, subpass_idx)

\* The properties Texture::new is given, other than the layout.
TextureParams(dims, fmt, layers, mips, samples, usage) ==
    [dims |-> dims, fmt |-> fmt, layers |-> layers, mips |-> mips,
     samples |-> samples, usage |-> usage]

\* A key that leaves the dimensions out.
TextureKeyWithoutDims(dims, fmt, layers, mips, samples, usage) ==
    [dims |-> None, fmt |-> fmt, layers |-> layers, mips |-> mips,
     samples |-> samples, usage |-> usage]

\* TextureKey { dims, fmt, layers, mips, samples, usage }
TextureKey(dims, fmt, layers, mips, samples, usage) ==
    [dims |-> dims, fmt |-> fmt, layers |-> layers, mips |-> mips,
     samples |-> samples, usage |-> usage]

\* The texture requests of a run.
TextureKeys == {TextureParams(d, "Rgba8Unorm", 1, 1, 1, 0) : d \in Dims}

\* ------------------------------------------------------- bookkeeping of last
\* The object released by the operation just before this one, when that was a
\* lease drop into the queue (kind, key); None otherwise.
JustReleased(kind, key) ==
    IF last.op = "drop" /\ last.kind = kind /\ last.key = key THEN last.obj ELSE None

\* stale: the object came from the queue carrying recorded commands (a command
\* pool) or a signaled state (a fence) left by its previous lease.
Acquired(kind, key, req, obj, hit, ncons) ==
    [op |-> "acquire", kind |-> kind, key |-> key, req |-> req, obj |-> obj,
     hit |-> hit, ncons |-> ncons, rel |-> JustReleased(kind, key),
     stale |-> hit /\ objs[obj].mark]

Panicked(kind, key, req, ncons) ==
    [op |-> "panic", kind |-> kind, key |-> key, req |-> req, obj |-> None,
     hit |-> FALSE, ncons |-> ncons, rel |-> JustReleased(kind, key), stale |-> FALSE]

Other(op, kind, key, obj) ==
    [op |-> op, kind |-> kind, key |-> key, req |-> 0, obj |-> obj,
     hit |-> FALSE, ncons |-> 0, rel |-> None, stale |-> FALSE]

\* The constructors return the object itself, not a Result: a driver failure
\* inside one can only surface as a panic.
CtorOutcomes == IF driver_faults THEN {TRUE, FALSE} ELSE {TRUE}
GraphicsOutcomes ==
    IF driver_faults THEN {"ok", "render_pass_failed", "ctor_failed"} ELSE {"ok"}
TextureOutcomes ==
    IF driver_faults THEN {"ok", "first_failed", "second_failed"} ELSE {"ok"}

NextId == Len(objs) + 1
CanConstruct(n) == Len(objs) + n <= MaxObjs
CanConstructTextures(n) == Len(objs) + n <= MaxTextures

\* ------------------------------------------------------------------- Init
\* Pool::default()
PoolDefault ==
    /\ cmd_pools = << >>
    /\ compilers = << >>
    /\ computes = << >>
    /\ data = << >>
    /\ desc_pools = << >>
    /\ fences = << >>
    /\ graphics = << >>
    /\ lru_threshold = DEFAULT_LRU_THRESHOLD
    /\ memories = << >>
    /\ render_passes = << >>
    /\ textures = << >>
    /\ objs = << >>
    /\ leases = << >>
    /\ panicking = FALSE
    /\ last = Other("init", "none", None, None)

\* No CommandBuffer has been created.
NoCommandBuffer ==
    /\ cb = "none"
    /\ cb_fence = FALSE
    /\ cb_pending = FALSE
    /\ droppables = << >>
    /\ freed = {}
    /\ device = "ok"
    /\ pushed = 0
    /\ graves = {}
    /\ confirmed = "no"
    /\ cb_submitted = FALSE
    /\ cb_last = [op |-> "init", res |-> Ok(FALSE), calls |-> {}, unwinding |-> FALSE]

\* No DescriptorPool has been created.
NoDescriptorPool ==
    /\ dp = "none"
    /\ dp_max_sets = 0
    /\ dp_refs = 0
    /\ dp_handle = FALSE
    /\ dp_sets = {}
    /\ dp_allocated = {}
    /\ dp_next = 0
    /\ dp_last = [op |-> "init", count |-> 0, res |-> Ok(FALSE), made |-> {},
                  before |-> [sets |-> {}, allocated |-> {}, refs |-> 0, dp |-> "none"],
                  calls |-> {}, unwinding |-> FALSE]

Init ==
    /\ PoolDefault
    /\ kind_in_use \in Kinds
    /\ driver_faults = FALSE
    /\ NoCommandBuffer
    /\ NoDescriptorPool

\* ------------------------------------------------------------ Pool::cmd_pool
\* An acquisition that forgets the reset.
NoResetCommandPool(os, item) == os

\* item.as_mut().reset(false)
ResetCommandPool(os, item) == [os EXCEPT ![item].mark = FALSE]

cmd_pool(family) ==
    /\ kind_in_use = "cmd_pool"
    /\ ~panicking
    /\ LET m == Entry(cmd_pools, family)
           r == pop_back(m[family])
       IN  IF r.found
           THEN /\ cmd_pools' = [m EXCEPT ![family] = r.rest]
                /\ objs' = ResetCommandPool(objs, r.item)
                /\ leases' = LeaseNew(r.item, "cmd_pool", family)
                /\ last' = Acquired("cmd_pool", family, 0, r.item, TRUE, 0)
                /\ UNCHANGED panicking
           ELSE \E ok \in CtorOutcomes :
                IF ok
                THEN /\ CanConstruct(1)
                     /\ cmd_pools' = m
                     /\ objs' = ResetCommandPool(Append(objs, CommandPoolNew(family)), NextId)
                     /\ leases' = LeaseNew(NextId, "cmd_pool", family)
                     /\ last' = Acquired("cmd_pool", family, 0, NextId, FALSE, 1)
                     /\ UNCHANGED panicking
                ELSE /\ cmd_pools' = m
                     /\ panicking' = TRUE
                     /\ last' = Panicked("cmd_pool", family, 0, 0)
                     /\ UNCHANGED <<objs, leases>>
    /\ UNCHANGED <<compilers, computes, data, desc_pools, fences, graphics,
                   lru_threshold, memories, render_passes, textures, kind_in_use, driver_faults, driverVars>>

\* ------------------------------------------------------------ Pool::compiler
compiler ==
    /\ kind_in_use = "compiler"
    /\ ~panicking
    /\ LET r == pop_back(compilers)
       IN  IF r.found
           THEN /\ compilers' = r.rest
                /\ objs' = objs
                /\ leases' = LeaseNew(r.item, "compiler", None)
                /\ last' = Acquired("compiler", None, 0, r.item, TRUE, 0)
           ELSE /\ CanConstruct(1)
                /\ compilers' = compilers
                /\ objs' = Append(objs, CompilerDefault)
                /\ leases' = LeaseNew(NextId, "compiler", None)
                /\ last' = Acquired("compiler", None, 0, NextId, FALSE, 1)
    /\ UNCHANGED <<cmd_pools, computes, data, desc_pools, fences, graphics,
                   lru_threshold, memories, render_passes, textures, panicking, kind_in_use, driver_faults, driverVars>>

\* -------------------------------------------------------- Pool::compute_sets
compute_sets(mode, max_sets) ==
    /\ kind_in_use = "compute"
    /\ ~panicking
    /\ LET m == Entry(computes, mode)
           r == remove_last_by(m[mode], max_sets)
       IN  IF r.found
           THEN /\ computes' = [m EXCEPT ![mode] = r.rest]
                /\ objs' = objs
                /\ leases' = LeaseNew(r.item, "compute", mode)
                /\ last' = Acquired("compute", mode, max_sets, r.item, TRUE, 0)
                /\ UNCHANGED panicking
           ELSE \E ok \in CtorOutcomes, own \in Amounts :
                IF ok
                THEN /\ CanConstruct(1)
                     /\ computes' = m
                     /\ objs' = Append(objs, ComputeCtor(mode, own))
                     /\ leases' = LeaseNew(NextId, "compute", mode)
                     /\ last' = Acquired("compute", mode, max_sets, NextId, FALSE, 1)
                     /\ UNCHANGED panicking
                ELSE /\ computes' = m
                     /\ panicking' = TRUE
                     /\ last' = Panicked("compute", mode, max_sets, 0)
                     /\ UNCHANGED <<objs, leases>>
    /\ UNCHANGED <<cmd_pools, compilers, data, desc_pools, fences, graphics,
                   lru_threshold, memories, render_passes, textures, kind_in_use, driver_faults, driverVars>>

\* Pool::compute
compute(mode) == compute_sets(mode, 1)

\* ---------------------------------------------------------- Pool::data_usage
data_usage(len, usage) ==
    /\ kind_in_use = "data"
    /\ ~panicking
    /\ LET m == Entry(data, usage)
           r == remove_last_by(m[usage], len)
       IN  IF r.found
           THEN /\ data' = [m EXCEPT ![usage] = r.rest]
                /\ objs' = objs
                /\ leases' = LeaseNew(r.item, "data", usage)
                /\ last' = Acquired("data", usage, len, r.item, TRUE, 0)
                /\ UNCHANGED panicking
           ELSE \E ok \in CtorOutcomes :
                IF ok
                THEN /\ CanConstruct(1)
                     /\ data' = m
                     /\ objs' = Append(objs, DataNew(len, usage))
                     /\ leases' = LeaseNew(NextId, "data", usage)
                     /\ last' = Acquired("data", usage, len, NextId, FALSE, 1)
                     /\ UNCHANGED panicking
                ELSE /\ data' = m
                     /\ panicking' = TRUE
                     /\ last' = Panicked("data", usage, len, 0)
                     /\ UNCHANGED <<objs, leases>>
    /\ UNCHANGED <<cmd_pools, compilers, computes, desc_pools, fences, graphics,
                   lru_threshold, memories, render_passes, textures, kind_in_use, driver_faults, driverVars>>

\* Pool::data
data_(len) == data_usage(len, UsageEmpty)

\* ----------------------------------------------------------- Pool::desc_pool
desc_pool(max_sets, desc_ranges) ==
    /\ kind_in_use = "desc_pool"
    /\ ~panicking
    /\ LET key == DescriptorPoolKey(desc_ranges)
           m == Entry(desc_pools, key)
           r == remove_last_by(m[key], max_sets)
       IN  IF r.found
           THEN /\ desc_pools' = [m EXCEPT ![key] = r.rest]
                /\ objs' = objs
                /\ leases' = LeaseNew(r.item, "desc_pool", key)
                /\ last' = Acquired("desc_pool", key, max_sets, r.item, TRUE, 0)
                /\ UNCHANGED panicking
           ELSE \E ok \in CtorOutcomes :
                IF ok
                THEN /\ CanConstruct(1)
                     /\ desc_pools' = m
                     /\ objs' = Append(objs, DescriptorPoolNew(max_sets, key))
                     /\ leases' = LeaseNew(NextId, "desc_pool", key)
                     /\ last' = Acquired("desc_pool", key, max_sets, NextId, FALSE, 1)
                     /\ UNCHANGED panicking
                ELSE /\ desc_pools' = m
                     /\ panicking' = TRUE
                     /\ last' = Panicked("desc_pool", key, max_sets, 0)
                     /\ UNCHANGED <<objs, leases>>
    /\ UNCHANGED <<cmd_pools, compilers, computes, data, fences, graphics,
                   lru_threshold, memories, render_passes, textures, kind_in_use, driver_faults, driverVars>>

\* ------------------------------------------------------------ Pool::drain
\* Drain::next is unimplemented!(): iterating the drain panics.
drain_next ==
    /\ ~panicking
    /\ panicking' = TRUE
    /\ last' = Panicked("drain", None, 0, 0)
    /\ UNCHANGED <<cmd_pools, compilers, computes, data, desc_pools, fences, graphics,
                   lru_threshold, memories, render_passes, textures, objs, leases, kind_in_use, driver_faults, driverVars>>

\* --------------------------------------------------------------- Pool::fence
\* An acquisition that hands the recycled fence out as it is.
NoResetFence(os, item) == os

\* Fence::reset(&mut item)
ResetFence(os, item) == [os EXCEPT ![item].mark = FALSE]

fence ==
    /\ kind_in_use = "fence"
    /\ ~panicking
    /\ LET r == pop_back(fences)
       IN  IF r.found
           THEN /\ fences' = r.rest
                /\ objs' = ResetFence(objs, r.item)
                /\ leases' = LeaseNew(r.item, "fence", None)
                /\ last' = Acquired("fence", None, 0, r.item, TRUE, 0)
                /\ UNCHANGED panicking
           ELSE \E ok \in CtorOutcomes :
                IF ok
                THEN /\ CanConstruct(1)
                     /\ fences' = fences
                     /\ objs' = Append(objs, FenceNew)
                     /\ leases' = LeaseNew(NextId, "fence", None)
                     /\ last' = Acquired("fence", None, 0, NextId, FALSE, 1)
                     /\ UNCHANGED panicking
                ELSE /\ panicking' = TRUE
                     /\ last' = Panicked("fence", None, 0, 0)
                     /\ UNCHANGED <<fences, objs, leases>>
    /\ UNCHANGED <<cmd_pools, compilers, computes, data, desc_pools, graphics,
                   lru_threshold, memories, render_passes, textures, kind_in_use, driver_faults, driverVars>>

\* --------------------------------------------------------- Pool::render_pass
\* An entry that runs the builder on every call.
RenderPassRebuilt(registry, mode) ==
    [m \in DOMAIN registry \cup {mode} |->
        IF m = mode THEN Cardinality(DOMAIN registry) + 1 ELSE registry[m]]

\* self.render_passes.entry(mode).or_insert_with(|| color/draw(driver, mode));
\* a stored render pass is named by the order in which it was built.
RenderPassEntry(registry, mode) ==
    IF mode \in DOMAIN registry
    THEN registry
    ELSE registry @@ (mode :> Cardinality(DOMAIN registry) + 1)

render_pass(mode) ==
    /\ kind_in_use = "graphics"
    /\ ~panicking
    /\ \E ok \in CtorOutcomes :
         IF ok \/ mode \in DOMAIN render_passes
         THEN /\ ok
              /\ render_passes' = RenderPassEntry(render_passes, mode)
              /\ last' = Other("render_pass", "render_pass", mode, render_passes'[mode])
              /\ UNCHANGED panicking
         ELSE /\ panicking' = TRUE
              /\ last' = Panicked("render_pass", mode, 0, 0)
              /\ UNCHANGED render_passes
    /\ UNCHANGED <<cmd_pools, compilers, computes, data, desc_pools, fences, graphics,
                   lru_threshold, memories, textures, objs, leases, kind_in_use, driver_faults, driverVars>>

\* ------------------------------------------------------- Pool::graphics_sets
\* match graphics_mode { ... }: GraphicsMode::Blend(_) other than Normal is todo!().
HasCtor(graphics_mode) == graphics_mode # "BlendScreen"

graphics_sets(graphics_mode, render_pass_mode, subpass_idx, max_sets) ==
    /\ kind_in_use = "graphics"
    /\ ~panicking
    /\ LET key == GraphicsKey(graphics_mode, render_pass_mode, subpass_idx)
           m == Entry(graphics, key)
           r == remove_last_by(m[key], max_sets)
       IN  IF r.found
           THEN /\ graphics' = [m EXCEPT ![key] = r.rest]
                /\ leases' = LeaseNew(r.item, "graphics", key)
                /\ last' = Acquired("graphics", key, max_sets, r.item, TRUE, 0)
                /\ UNCHANGED <<objs, render_passes, panicking>>
           ELSE IF ~HasCtor(graphics_mode)
           THEN /\ graphics' = m
                /\ panicking' = TRUE
                /\ last' = Panicked("graphics", key, max_sets, 0)
                /\ UNCHANGED <<objs, leases, render_passes>>
           ELSE \E out \in GraphicsOutcomes :
                CASE out = "ok" ->
                     /\ CanConstruct(1)
                     /\ graphics' = m
                     /\ render_passes' = RenderPassEntry(render_passes, render_pass_mode)
                     /\ objs' = Append(objs, GraphicsCtor(key, max_sets))
                     /\ leases' = LeaseNew(NextId, "graphics",
                                     MissQueueKey(graphics_mode, render_pass_mode, subpass_idx))
                     /\ last' = Acquired("graphics", key, max_sets, NextId, FALSE, 1)
                     /\ UNCHANGED panicking
                  [] out = "render_pass_failed" ->
                     /\ render_pass_mode \notin DOMAIN render_passes
                     /\ graphics' = m
                     /\ panicking' = TRUE
                     /\ last' = Panicked("graphics", key, max_sets, 0)
                     /\ UNCHANGED <<objs, leases, render_passes>>
                  [] out = "ctor_failed" ->
                     /\ graphics' = m
                     /\ render_passes' = RenderPassEntry(render_passes, render_pass_mode)
                     /\ panicking' = TRUE
                     /\ last' = Panicked("graphics", key, max_sets, 0)
                     /\ UNCHANGED <<objs, leases>>
    /\ UNCHANGED <<cmd_pools, compilers, computes, data, desc_pools, fences,
                   lru_threshold, memories, textures, kind_in_use, driver_faults, driverVars>>

\* Pool::graphics
graphics_(graphics_mode, render_pass_mode, subpass_idx) ==
    graphics_sets(graphics_mode, render_pass_mode, subpass_idx, 1)

\* -------------------------------------------------------------- Pool::memory
memory(mem_type, size) ==
    /\ kind_in_use = "memory"
    /\ ~panicking
    /\ LET m == Entry(memories, mem_type)
           r == remove_last_by(m[mem_type], size)
       IN  IF r.found
           THEN /\ memories' = [m EXCEPT ![mem_type] = r.rest]
                /\ objs' = objs
                /\ leases' = LeaseNew(r.item, "memory", mem_type)
                /\ last' = Acquired("memory", mem_type, size, r.item, TRUE, 0)
                /\ UNCHANGED panicking
           ELSE \E ok \in CtorOutcomes :
                IF ok
                THEN /\ CanConstruct(1)
                     /\ memories' = m
                     /\ objs' = Append(objs, MemoryNew(mem_type, size))
                     /\ leases' = LeaseNew(NextId, "memory", mem_type)
                     /\ last' = Acquired("memory", mem_type, size, NextId, FALSE, 1)
                     /\ UNCHANGED panicking
                ELSE /\ memories' = m
                     /\ panicking' = TRUE
                     /\ last' = Panicked("memory", mem_type, size, 0)
                     /\ UNCHANGED <<objs, leases>>
    /\ UNCHANGED <<cmd_pools, compilers, computes, data, desc_pools, fences, graphics,
                   lru_threshold, render_passes, textures, kind_in_use, driver_faults, driverVars>>

\* ------------------------------------------------------------- Pool::texture
\* A miss that seeds no spare.
push_front_skipped(items, item) == items

\* VecDeque::push_front
push_front(items, item) == <<item>> \o items

texture(dims, fmt, layout, usage, layers, mips, samples) ==
    /\ kind_in_use = "texture"
    /\ ~panicking
    /\ LET key == TextureKey(dims, fmt, layers, mips, samples, usage)
           asked == TextureParams(dims, fmt, layers, mips, samples, usage)
           m == Entry(textures, key)
           r == pop_back(m[key])
       IN  IF r.found
           THEN /\ textures' = [m EXCEPT ![key] = r.rest]
                /\ objs' = objs
                /\ leases' = LeaseNew(r.item, "texture", key)
                /\ last' = Acquired("texture", key, asked, r.item, TRUE, 0)
                /\ UNCHANGED panicking
           ELSE \E out \in TextureOutcomes :
                CASE out = "ok" ->
                     /\ CanConstructTextures(2)
                     /\ textures' = [m EXCEPT ![key] = push_front(r.rest, NextId)]
                     /\ objs' = objs \o <<TextureNew(asked, layout), TextureNew(asked, layout)>>
                     /\ leases' = LeaseNew(NextId + 1, "texture", key)
                     /\ last' = Acquired("texture", key, asked, NextId + 1, FALSE, 2)
                     /\ UNCHANGED panicking
                  [] out = "first_failed" ->
                     /\ textures' = m
                     /\ panicking' = TRUE
                     /\ last' = Panicked("texture", key, 0, 0)
                     /\ UNCHANGED <<objs, leases>>
                  [] out = "second_failed" ->
                     /\ CanConstructTextures(1)
                     /\ textures' = [m EXCEPT ![key] = push_front(r.rest, NextId)]
                     /\ objs' = Append(objs, TextureNew(asked, layout))
                     /\ panicking' = TRUE
                     /\ last' = Panicked("texture", key, 0, 1)
                     /\ UNCHANGED leases
    /\ UNCHANGED <<cmd_pools, compilers, computes, data, desc_pools, fences, graphics,
                   lru_threshold, memories, render_passes, kind_in_use, driver_faults, driverVars>>

\* ------------------------------------------------- impl Drop for Lease<T>
\* The item is pushed onto the back of the queue the lease refers to.
push_back(items, item) == Append(items, item)

DropLease(i) ==
    /\ i \in 1..Len(leases)
    /\ LET l == leases[i]
       IN  /\ CASE l.kind = "cmd_pool" ->
                   /\ cmd_pools' = [cmd_pools EXCEPT ![l.key] = push_back(@, l.obj)]
                   /\ UNCHANGED <<compilers, computes, data, desc_pools, fences,
                                  graphics, memories, textures>>
                [] l.kind = "compiler" ->
                   /\ compilers' = push_back(compilers, l.obj)
                   /\ UNCHANGED <<cmd_pools, computes, data, desc_pools, fences,
                                  graphics, memories, textures>>
                [] l.kind = "compute" ->
                   /\ computes' = [computes EXCEPT ![l.key] = push_back(@, l.obj)]
                   /\ UNCHANGED <<cmd_pools, compilers, data, desc_pools, fences,
                                  graphics, memories, textures>>
                [] l.kind = "data" ->
                   /\ data' = [data EXCEPT ![l.key] = push_back(@, l.obj)]
                   /\ UNCHANGED <<cmd_pools, compilers, computes, desc_pools, fences,
                                  graphics, memories, textures>>
                [] l.kind = "desc_pool" ->
                   /\ desc_pools' = [desc_pools EXCEPT ![l.key] = push_back(@, l.obj)]
                   /\ UNCHANGED <<cmd_pools, compilers, computes, data, fences,
                                  graphics, memories, textures>>
                [] l.kind = "fence" ->
                   /\ fences' = push_back(fences, l.obj)
                   /\ UNCHANGED <<cmd_pools, compilers, computes, data, desc_pools,
                                  graphics, memories, textures>>
                [] l.kind = "graphics" ->
                   /\ graphics' = [graphics EXCEPT ![l.key] = push_back(@, l.obj)]
                   /\ UNCHANGED <<cmd_pools, compilers, computes, data, desc_pools,
                                  fences, memories, textures>>
                [] l.kind = "memory" ->
                   /\ memories' = [memories EXCEPT ![l.key] = push_back(@, l.obj)]
                   /\ UNCHANGED <<cmd_pools, compilers, computes, data, desc_pools,
                                  fences, graphics, textures>>
                [] l.kind = "texture" ->
                   /\ textures' = [textures EXCEPT ![l.key] = push_back(@, l.obj)]
                   /\ UNCHANGED <<cmd_pools, compilers, computes, data, desc_pools,
                                  fences, graphics, memories>>
           /\ leases' = RemoveAt(leases, i)
           /\ last' = Other("drop", l.kind, l.key, l.obj)
    /\ UNCHANGED <<lru_threshold, render_passes, objs, kind_in_use, panicking, driver_faults, driverVars>>

\* --------------------------------------- use of a leased object by its holder
\* Commands are recorded into a leased command pool.
RecordCommands(i) ==
    /\ ~panicking
    /\ i \in 1..Len(leases)
    /\ leases[i].kind = "cmd_pool"
    /\ ~objs[leases[i].obj].mark
    /\ objs' = [objs EXCEPT ![leases[i].obj].mark = TRUE]
    /\ last' = Other("record", "cmd_pool", leases[i].key, leases[i].obj)
    /\ UNCHANGED <<cmd_pools, compilers, computes, data, desc_pools, fences, graphics,
                   lru_threshold, memories, render_passes, textures, leases, kind_in_use, panicking, driver_faults, driverVars>>

\* The GPU signals a leased fence.
SignalFence(i) ==
    /\ ~panicking
    /\ i \in 1..Len(leases)
    /\ leases[i].kind = "fence"
    /\ ~objs[leases[i].obj].mark
    /\ objs' = [objs EXCEPT ![leases[i].obj].mark = TRUE]
    /\ last' = Other("signal", "fence", None, leases[i].obj)
    /\ UNCHANGED <<cmd_pools, compilers, computes, data, desc_pools, fences, graphics,
                   lru_threshold, memories, render_passes, textures, leases, kind_in_use, panicking, driver_faults, driverVars>>

\* ---------------------------------------------------------------- the Pool
Next ==
    \/ \E family \in Families : cmd_pool(family)
    \/ compiler
    \/ \E mode \in ComputeModes : compute(mode)
    \/ \E mode \in ComputeModes, max_sets \in Amounts : compute_sets(mode, max_sets)
    \/ \E len \in Amounts : data_(len)
    \/ \E len \in Amounts, usage \in Usages : data_usage(len, usage)
    \/ \E max_sets \in Amounts, desc_ranges \in DescRangeInputs :
          desc_pool(max_sets, desc_ranges)
    \/ drain_next
    \/ fence
    \/ \E gm \in GraphicsModes, rm \in RenderPassModes, si \in SubpassIdxs :
          graphics_(gm, rm, si)
    \/ \E gm \in GraphicsModes, rm \in RenderPassModes, si \in SubpassIdxs,
          max_sets \in Amounts : graphics_sets(gm, rm, si, max_sets)
    \/ \E mem_type \in MemoryTypes, size \in Amounts : memory(mem_type, size)
    \/ \E mode \in RenderPassModes : render_pass(mode)
    \/ \E key \in TextureKeys, layout \in Layouts :
          texture(key.dims, key.fmt, layout, key.usage, key.layers, key.mips, key.samples)
    \/ \E i \in 1..Len(leases) : DropLease(i)
    \/ \E i \in 1..Len(leases) : RecordCommands(i)
    \/ \E i \in 1..Len(leases) : SignalFence(i)

Spec == Init /\ [][Next]_vars

\* The Pool on a driver that may fail to construct an object.
InitFaulty ==
    /\ PoolDefault
    /\ kind_in_use \in Kinds
    /\ driver_faults = TRUE
    /\ NoCommandBuffer
    /\ NoDescriptorPool

SpecFaulty == InitFaulty /\ [][Next]_vars

\* ============================================================ CommandBuffer
\* The handles a CommandBuffer owns.
Handles == {"cmd_buf", "pool", "query_pool", "fence"}

\* A CommandBuffer call: its result, the driver wait, free and destroy calls
\* it made, and whether the thread was unwinding.
CbOp(op, res, calls) ==
    [op |-> op, res |-> res, calls |-> calls, unwinding |-> panicking]

\* device.get_fence_status(self.fence) as the driver answers it.
get_fence_status ==
    CASE device = "ok" -> [ok |-> TRUE, status |-> cb_fence, err |-> "SUCCESS"]
      [] device = "lost" -> [ok |-> FALSE, status |-> FALSE, err |-> "ERROR_DEVICE_LOST"]
      [] device = "failing" ->
            [ok |-> FALSE, status |-> FALSE, err |-> "ERROR_OUT_OF_HOST_MEMORY"]

\* A poll that reports completion whenever the driver answers.
has_executed_always ==
    LET res == get_fence_status
    IN  IF res.ok THEN Ok(TRUE) ELSE Err("InvalidData")

\* A poll that turns a driver error into "not executed".
has_executed_swallowing ==
    LET res == get_fence_status
    IN  IF res.ok THEN Ok(res.status) ELSE Ok(FALSE)

\* CommandBuffer::has_executed
has_executed ==
    LET res == get_fence_status
    IN  IF res.ok
        THEN Ok(res.status)
        ELSE IF res.err = "ERROR_DEVICE_LOST"
        THEN Err("InvalidData")
        ELSE Err("InvalidData")

\* Device::wait_for_fence: returns once the fence is signaled, or with an
\* error when the driver reports one; it has no timeout.
WaitReturns == device # "ok" \/ cb_fence
wait_for_fence == IF device = "ok" THEN Ok(TRUE) ELSE Err("InvalidData")

\* A fence created unsignaled.
CreateFenceUnsignaled == FALSE

\* Device::create_fence(&device, true): the fence is created signaled.
CreateFenceSignaled == TRUE

\* CommandBuffer::create
create ==
    /\ cb = "none"
    /\ ~panicking
    /\ IF device = "ok"
       THEN /\ cb' = "live"
            /\ cb_fence' = CreateFenceSignaled
            /\ droppables' = << >>
            /\ cb_last' = CbOp("create", Ok(TRUE), {})
       ELSE /\ cb_last' = CbOp("create", Err("Unsupported"), {})
            /\ UNCHANGED <<cb, cb_fence, droppables>>
    /\ UNCHANGED <<cb_pending, freed, device, pushed, graves, confirmed, cb_submitted, poolVars, dpVars>>

\* The droppables destroyed at one point, each with what has_executed would
\* have reported at that point.
Buried(by, status) ==
    {[id |-> droppables[i], by |-> by, executed |-> status, submitted |-> cb_submitted] :
        i \in 1..Len(droppables)}

\* A clear that leaves the list as it was.
NotCleared(items) == items

\* Vec::clear
Cleared(items) == << >>

\* CommandBuffer::drop_fenced: the list is cleared whenever it is called; the
\* fence is not looked at.
drop_fenced ==
    /\ cb = "live"
    /\ ~panicking
    /\ graves' = graves \cup Buried("drop_fenced", has_executed)
    /\ droppables' = Cleared(droppables)
    /\ cb_last' = CbOp("drop_fenced", Ok(TRUE), {})
    /\ UNCHANGED <<cb, cb_fence, cb_pending, freed, device, pushed, confirmed, cb_submitted, poolVars, dpVars>>

\* The call of CommandBuffer::has_executed by the owner of the buffer.
HasExecuted ==
    /\ cb = "live"
    /\ ~panicking
    /\ cb_last' = CbOp("has_executed", has_executed, {})
    /\ confirmed' = IF has_executed = Ok(TRUE) /\ confirmed = "no" THEN "polled"
                    ELSE confirmed
    /\ UNCHANGED <<cb, cb_fence, cb_pending, droppables, freed, device, pushed, graves,
                   cb_submitted, poolVars, dpVars>>

\* CommandBuffer::push_fenced_drop
push_fenced_drop ==
    /\ cb = "live"
    /\ ~panicking
    /\ pushed < MaxDrops
    /\ droppables' = Append(droppables, pushed + 1)
    /\ pushed' = pushed + 1
    /\ cb_last' = CbOp("push_fenced_drop", Ok(TRUE), {})
    /\ UNCHANGED <<cb, cb_fence, cb_pending, freed, device, graves, confirmed, cb_submitted, poolVars, dpVars>>

\* CommandBuffer::wait_until_executed
wait_until_executed ==
    /\ cb = "live"
    /\ ~panicking
    /\ WaitReturns
    /\ cb_last' = CbOp("wait_until_executed", wait_for_fence, {"wait_for_fence"})
    /\ confirmed' = IF wait_for_fence.ok THEN "waited" ELSE confirmed
    /\ UNCHANGED <<cb, cb_fence, cb_pending, droppables, freed, device, pushed, graves,
                   cb_submitted, poolVars, dpVars>>

\* A teardown that does not wait for the fence.
TeardownFreesWithoutWait == IF panicking THEN {} ELSE Handles

\* impl Drop for CommandBuffer: the handles the teardown frees.
TeardownFrees ==
    IF panicking
    THEN {}
    ELSE IF ~wait_for_fence.ok THEN {} ELSE Handles

\* A teardown that makes its driver calls also while the thread unwinds.
TeardownCallsIgnoringPanic ==
    IF ~wait_for_fence.ok
    THEN {"wait_for_fence"}
    ELSE {"wait_for_fence", "free_command_buffers", "destroy_command_pool",
          "destroy_query_pool", "destroy_fence"}

\* impl Drop for CommandBuffer: the driver calls the teardown makes.
TeardownCalls ==
    IF panicking
    THEN {}
    ELSE IF ~wait_for_fence.ok
    THEN {"wait_for_fence"}
    ELSE {"wait_for_fence", "free_command_buffers", "destroy_command_pool",
          "destroy_query_pool", "destroy_fence"}

\* impl Drop for CommandBuffer, followed by the drop of its fields.
DropCommandBuffer ==
    /\ cb = "live"
    /\ panicking \/ WaitReturns
    /\ cb' = "dropped"
    /\ freed' = freed \cup TeardownFrees
    /\ graves' = graves \cup Buried("teardown", has_executed)
    /\ droppables' = << >>
    /\ cb_last' = CbOp("drop", IF panicking THEN Ok(FALSE) ELSE wait_for_fence,
                        TeardownCalls)
    /\ UNCHANGED <<cb_fence, cb_pending, device, pushed, confirmed, cb_submitted, poolVars, dpVars>>

\* The queue submission of the recorded buffer: the fence is reset and handed
\* to the GPU with the work.
Submit ==
    /\ cb = "live"
    /\ ~panicking
    /\ device = "ok"
    /\ cb_fence
    /\ cb_fence' = FALSE
    /\ cb_pending' = TRUE
    /\ confirmed' = "no"
    /\ cb_submitted' = TRUE
    /\ cb_last' = CbOp("submit", Ok(TRUE), {})
    /\ UNCHANGED <<cb, droppables, freed, device, pushed, graves, poolVars, dpVars>>

\* The GPU finishes the submitted work and signals the fence.
GpuCompletes ==
    /\ cb_pending
    /\ device = "ok"
    /\ cb_pending' = FALSE
    /\ cb_fence' = TRUE
    /\ UNCHANGED <<cb, droppables, freed, device, pushed, graves, confirmed, cb_submitted, cb_last,
                   poolVars, dpVars>>

\* The driver starts to report errors: the device is lost, or a call fails.
DeviceFault(f) ==
    /\ device = "ok"
    /\ cb # "dropped"
    /\ device' = f
    /\ UNCHANGED <<cb, cb_fence, cb_pending, droppables, freed, pushed, graves,
                   confirmed, cb_submitted, cb_last, poolVars, dpVars>>

\* A failing call succeeds again; a lost device stays lost.
DeviceRecovers ==
    /\ device = "failing"
    /\ device' = "ok"
    /\ UNCHANGED <<cb, cb_fence, cb_pending, droppables, freed, pushed, graves,
                   confirmed, cb_submitted, cb_last, poolVars, dpVars>>

\* The thread that owns the buffer starts to unwind.
Panic ==
    /\ cb = "live"
    /\ ~panicking
    /\ panicking' = TRUE
    /\ UNCHANGED <<cmd_pools, compilers, computes, data, desc_pools, fences, graphics,
                   lru_threshold, memories, render_passes, textures, objs, leases,
                   kind_in_use, driver_faults, last, cbVars, dpVars>>

InitCmd ==
    /\ PoolDefault
    /\ kind_in_use = "none"
    /\ driver_faults = FALSE
    /\ NoCommandBuffer
    /\ NoDescriptorPool

NextCmd ==
    \/ create
    \/ drop_fenced
    \/ HasExecuted
    \/ push_fenced_drop
    \/ wait_until_executed
    \/ DropCommandBuffer
    \/ Submit
    \/ GpuCompletes
    \/ Panic
    \/ \E f \in {"lost", "failing"} : DeviceFault(f)
    \/ DeviceRecovers

SpecCmd == InitCmd /\ [][NextCmd]_vars

\* ============================================== DescriptorPool / DescriptorSet
\* device.allocate_descriptor_sets as the driver answers it: the native pool
\* holds at most max_sets sets, and a lost or failing device allocates nothing.
DriverAllocates(count) ==
    device = "ok" /\ Cardinality(dp_allocated) + count <= dp_max_sets

\* .set_layouts(from_ref(layout)) followed by descriptor_set_count = count: the
\* driver is handed a slice of ONE layout and told to read count of them. For
\* count > 1 it reads past the slice, which is undefined: what lies there is no
\* layout handle and the call fails on it (FALSE), or the driver never looks at
\* it and the call goes on as for one layout (TRUE).
LayoutsReadable(count) == IF count = 1 THEN {TRUE} ELSE {TRUE, FALSE}

\* An allocation that unwraps the driver's answer.
AllocateResultUnwrapped(driver_ok) ==
    IF driver_ok THEN Ok(TRUE) ELSE Err("panic")

\* .map_err(|_| DriverError::Unsupported)?
AllocateResult(driver_ok) ==
    IF driver_ok THEN Ok(TRUE) ELSE Err("Unsupported")

\* .iter().map(|descriptor_set| DescriptorSet { .. }).collect()
SetsMade(driver_ok, count) ==
    IF driver_ok THEN (dp_next + 1)..(dp_next + count) ELSE {}

\* A set that keeps no reference to its pool.
ClonesHeldByNoSet(made) == 0

\* descriptor_pool: Shared::clone(&descriptor_pool): every set made holds one
\* strong reference to the pool.
ClonesHeldBySets(made) == Cardinality(made)

Snapshot == [sets |-> dp_sets, allocated |-> dp_allocated, refs |-> dp_refs, dp |-> dp]

DpOther(op) ==
    [op |-> op, count |-> 0, res |-> Ok(TRUE), made |-> {}, before |-> Snapshot,
     calls |-> {}, unwinding |-> panicking]

\* DescriptorPool::create, the result wrapped in a Shared by the caller.
dp_create(max_sets) ==
    /\ dp = "none"
    /\ ~panicking
    /\ IF device = "ok"
       THEN /\ dp' = "live"
            /\ dp_max_sets' = max_sets
            /\ dp_refs' = 1
            /\ dp_handle' = TRUE
            /\ dp_last' = DpOther("create")
       ELSE /\ dp_last' = [DpOther("create") EXCEPT !.res = Err("Unsupported")]
            /\ UNCHANGED <<dp, dp_max_sets, dp_refs, dp_handle>>
    /\ UNCHANGED <<dp_sets, dp_allocated, dp_next, poolVars, cbVars>>

\* DescriptorPool::allocate_descriptor_sets: the clone of the pool taken at
\* entry is dropped at return; each set made keeps a clone of its own. The
\* driver's answer for count > 1 depends on what it reads past the one layout.
allocate_descriptor_sets(count) ==
    /\ dp_handle
    /\ ~panicking
    /\ dp_next + count <= MaxSetIds
    /\ \E layouts_ok \in LayoutsReadable(count) :
       LET driver_ok == layouts_ok /\ DriverAllocates(count)
           made == SetsMade(driver_ok, count)
       IN  /\ dp_sets' = dp_sets \cup made
           /\ dp_allocated' = IF driver_ok
                              THEN dp_allocated \cup ((dp_next + 1)..(dp_next + count))
                              ELSE dp_allocated
           /\ dp_refs' = dp_refs + 1 + ClonesHeldBySets(made) - 1
           /\ dp_next' = IF driver_ok THEN dp_next + count ELSE dp_next
           /\ dp_last' = [op |-> "allocate", count |-> count,
                          res |-> AllocateResult(driver_ok), made |-> made,
                          before |-> Snapshot, calls |-> {}, unwinding |-> panicking]
    /\ UNCHANGED <<dp, dp_max_sets, dp_handle, poolVars, cbVars>>

\* DescriptorPool::allocate_descriptor_set
allocate_descriptor_set == allocate_descriptor_sets(1)

\* impl Drop for DescriptorSet: the driver calls it makes.
DescriptorSetDropCalls == IF panicking THEN {} ELSE {"free_descriptor_sets"}

\* impl Drop for DescriptorPool, run when the last Shared is dropped: the
\* driver calls it makes.
DescriptorPoolDropCalls(refs_left) ==
    IF refs_left # 0 THEN {}
    ELSE IF panicking THEN {} ELSE {"destroy_descriptor_pool"}

\* impl Drop for DescriptorPool, run when the last Shared is dropped.
PoolAfterRelease(refs_left) ==
    IF refs_left = 0 /\ ~panicking THEN "destroyed" ELSE dp

\* impl Drop for DescriptorSet, followed by the drop of its Shared<DescriptorPool>;
\* a failure of free_descriptor_sets is logged and the set stays allocated.
DropDescriptorSet(id) ==
    /\ id \in dp_sets
    /\ dp_sets' = dp_sets \ {id}
    /\ dp_allocated' = IF panicking \/ device # "ok" THEN dp_allocated
                       ELSE dp_allocated \ {id}
    /\ dp_refs' = dp_refs - 1
    /\ dp' = PoolAfterRelease(dp_refs - 1)
    /\ dp_last' = [DpOther("drop_set") EXCEPT
                      !.calls = DescriptorSetDropCalls \cup DescriptorPoolDropCalls(dp_refs - 1)]
    /\ UNCHANGED <<dp_max_sets, dp_handle, dp_next, poolVars, cbVars>>

\* The creator drops its Shared<DescriptorPool>.
DropPoolHandle ==
    /\ dp_handle
    /\ dp_handle' = FALSE
    /\ dp_refs' = dp_refs - 1
    /\ dp' = PoolAfterRelease(dp_refs - 1)
    /\ dp_last' = [DpOther("drop_handle") EXCEPT
                      !.calls = DescriptorPoolDropCalls(dp_refs - 1)]
    /\ UNCHANGED <<dp_max_sets, dp_sets, dp_allocated, dp_next, poolVars, cbVars>>

\* The thread that owns the pool and its sets starts to unwind.
PanicDesc ==
    /\ dp = "live"
    /\ ~panicking
    /\ panicking' = TRUE
    /\ UNCHANGED <<cmd_pools, compilers, computes, data, desc_pools, fences, graphics,
                   lru_threshold, memories, render_passes, textures, objs, leases,
                   kind_in_use, driver_faults, last, cbVars, dpVars>>

NextDesc ==
    \/ \E max_sets \in 1..MaxSets : dp_create(max_sets)
    \/ \E count \in 1..MaxSets : allocate_descriptor_sets(count)
    \/ allocate_descriptor_set
    \/ \E id \in 1..MaxSetIds : DropDescriptorSet(id)
    \/ DropPoolHandle
    \/ \E f \in {"lost", "failing"} : DeviceFault(f)
    \/ DeviceRecovers
    \/ PanicDesc

SpecDesc == InitCmd /\ [][NextDesc]_vars

\* ------------------------------------------------- teardown of driver objects
\* A thread that owns either a CommandBuffer or a DescriptorPool with its sets.
NextTeardown ==
    \/ dp = "none" /\ NextCmd
    \/ cb = "none" /\ NextDesc

SpecTeardown == InitCmd /\ [][NextTeardown]_vars

\* ===================================================================== claims
\* ------------------------------------------------------ where an object is
InQueue(items, o) == {idx \in 1..Len(items) : items[idx] = o}

InMap(map, o) ==
    UNION {{<<key, idx>> : idx \in InQueue(map[key], o)} : key \in DOMAIN map}

\* Number of places object o takes in the idle queues of the Pool.
IdleCount(o) ==
    Cardinality(InMap(cmd_pools, o)) + Cardinality(InQueue(compilers, o))
    + Cardinality(InMap(computes, o)) + Cardinality(InMap(data, o))
    + Cardinality(InMap(desc_pools, o)) + Cardinality(InQueue(fences, o))
    + Cardinality(InMap(graphics, o)) + Cardinality(InMap(memories, o))
    + Cardinality(InMap(textures, o))

LeaseIdxs(o) == {i \in 1..Len(leases) : leases[i].obj = o}

\* The idle queue of (kind, key); the empty queue when none was created.
QueueOf(kind, key) ==
    LET At(map) == IF key \in DOMAIN map THEN map[key] ELSE << >>
    IN  CASE kind = "cmd_pool" -> At(cmd_pools)
          [] kind = "compiler" -> compilers
          [] kind = "compute" -> At(computes)
          [] kind = "data" -> At(data)
          [] kind = "desc_pool" -> At(desc_pools)
          [] kind = "fence" -> fences
          [] kind = "graphics" -> At(graphics)
          [] kind = "memory" -> At(memories)
          [] kind = "texture" -> At(textures)

\* The kinds whose acquire carries an amount the object must reach.
CapacityKinds == {"compute", "data", "desc_pool", "graphics", "memory"}

\* C1. At-most-one-owner: no two live leases wrap the same object, and no
\* object held by a live lease is in an idle queue.
C1_AtMostOneOwner ==
    \A o \in 1..Len(objs) :
        /\ Cardinality(LeaseIdxs(o)) <= 1
        /\ LeaseIdxs(o) # {} => IdleCount(o) = 0

\* An object was taken from its queue again while another lease is live and
\* a third object is idle.
C1_Witness ==
    /\ last.op = "acquire" /\ last.hit
    /\ Len(leases) >= 2
    /\ \E o \in 1..Len(objs) : IdleCount(o) = 1

\* C3. Round-trip reuse: the acquire that directly follows the drop of a lease
\* for the same key, with a request the released object satisfies, returns the
\* released object and constructs nothing.
C3_RoundTripReuse ==
    ( /\ last.op = "acquire"
      /\ last.rel # None
      /\ (last.kind \in CapacityKinds => Capacity(last.rel) >= last.req) )
    => (last.obj = last.rel /\ last.ncons = 0)

\* C4. Fitness monotonicity: an object taken from the idle queue has at least
\* the requested capacity.
C4_FitnessMonotonicity ==
    (last.op = "acquire" /\ last.hit /\ last.kind \in CapacityKinds)
    => Capacity(last.obj) >= last.req

\* A hit that passed over an idle object too small for the request.
C4_Witness ==
    /\ last.op = "acquire" /\ last.hit /\ last.kind \in CapacityKinds
    /\ \E idx \in 1..Len(QueueOf(last.kind, last.key)) :
          Capacity(QueueOf(last.kind, last.key)[idx]) < last.req

\* C5. Construction count: a miss constructs exactly one object (two for a
\* texture), a hit constructs none.
C5_ConstructionCount ==
    (last.op \in {"acquire", "panic"} /\ last.kind \in Kinds)
    => last.ncons = (IF last.hit THEN 0 ELSE IF last.kind = "texture" THEN 2 ELSE 1)

\* C6. From a pool that never held a buffer, data(n) constructs a buffer of
\* capacity >= n; when that is the only buffer ever constructed and its lease
\* has just been dropped, data(m) with m <= n returns it and constructs nothing.
C6_LargerIdleBufferServesSmaller ==
    /\ ( /\ last.op = "acquire" /\ last.kind = "data" /\ last.key = UsageEmpty
         /\ Len(objs) - last.ncons = 0 )
       => (~last.hit /\ last.ncons = 1 /\ Capacity(last.obj) >= last.req)
    /\ ( /\ last.op = "acquire" /\ last.kind = "data" /\ last.key = UsageEmpty
         /\ Len(objs) - last.ncons = 1
         /\ last.rel = 1
         /\ last.req <= Capacity(1) )
       => (last.hit /\ last.obj = 1 /\ last.ncons = 0)

\* The only buffer, of capacity 2, was released and then served data(1).
C6_Witness ==
    /\ last.op = "acquire" /\ last.kind = "data" /\ last.key = UsageEmpty
    /\ Len(objs) = 1 /\ last.rel = 1 /\ last.obj = 1
    /\ last.req < Capacity(1)

\* C7. Command-pool reset: a command pool returned by cmd_pool, new or
\* recycled, holds no recorded commands.
C7_CommandPoolReset ==
    (last.op = "acquire" /\ last.kind = "cmd_pool") => ~objs[last.obj].mark

\* A command pool that was released with recorded commands was leased again.
C7_Witness ==
    last.op = "acquire" /\ last.kind = "cmd_pool" /\ last.hit /\ last.stale

\* C8. Lease return: after a lease is dropped its object is the last element
\* of the queue of the key it was constructed and acquired under, there once,
\* in no other queue, and held by no lease.
C8_LeaseReturn ==
    last.op = "drop" =>
        LET q == QueueOf(last.kind, last.key)
        IN  /\ Len(q) > 0
            /\ q[Len(q)] = last.obj
            /\ IdleCount(last.obj) = 1
            /\ LeaseIdxs(last.obj) = {}
            /\ objs[last.obj].kind = last.kind
            /\ objs[last.obj].key = last.key

\* A lease was dropped into a queue that already held an idle object.
C8_Witness ==
    last.op = "drop" /\ Len(QueueOf(last.kind, last.key)) >= 2

\* C2. Fence gating: every droppable of a submitted command buffer that was
\* destroyed, by drop_fenced or by the teardown, was destroyed in a state where
\* has_executed would report true (not false, and not an error).
C2_FenceGating == \A g \in graves : g.submitted => g.executed = Ok(TRUE)

\* C9. Descriptor-pool capacity: with max_sets sets allocated and live, a
\* further allocation returns Err(Unsupported), makes no set, and leaves the
\* pool, its sets and its reference count as they were.
C9_DescriptorPoolCapacity ==
    ( /\ dp_last.op = "allocate"
      /\ Cardinality(dp_last.before.sets) = dp_max_sets
      /\ dp_last.before.allocated = dp_last.before.sets )
    => /\ dp_last.res = Err("Unsupported")
       /\ dp_last.made = {}
       /\ dp_sets = dp_last.before.sets
       /\ dp_allocated = dp_last.before.allocated
       /\ dp_refs = dp_last.before.refs
       /\ dp = "live"

\* A pool of at least two sets was full when a further allocation was tried.
C9_Witness ==
    /\ dp_last.op = "allocate"
    /\ dp_max_sets >= 2
    /\ Cardinality(dp_last.before.sets) = dp_max_sets
    /\ dp_last.before.allocated = dp_last.before.sets
    /\ ~dp_last.res.ok

\* C10 as stated. Fence observation: while submitted work is pending
\* has_executed returns Ok(false), and once wait_until_executed has returned Ok
\* for the submission has_executed returns Ok(true).
C10_FenceObservation ==
    cb = "live" =>
        /\ cb_pending => has_executed = Ok(FALSE)
        /\ (cb_submitted /\ confirmed = "waited") => has_executed = Ok(TRUE)

\* C10 as amended. Whenever the driver reports a fence status, has_executed
\* returns Ok(false) while submitted work is pending and Ok(true) once
\* wait_until_executed has returned Ok for the submission; when the driver
\* reports an error it returns Err(InvalidData).
C10_FenceObservationUnlessDriverError ==
    cb = "live" =>
        IF get_fence_status.ok
        THEN /\ cb_pending => has_executed = Ok(FALSE)
             /\ (cb_submitted /\ confirmed = "waited") => has_executed = Ok(TRUE)
        ELSE has_executed = Err("InvalidData")

\* The buffer was submitted and polled while pending; and it was waited for
\* and polled afterwards.
C10_Witness ==
    /\ cb = "live" /\ cb_submitted
    /\ cb_last.op = "has_executed"
    /\ \/ cb_pending /\ cb_last.res = Ok(FALSE)
       \/ confirmed = "waited" /\ cb_last.res = Ok(TRUE)

\* C11. Descriptor set keeps its pool alive: a DescriptorPool whose native
\* allocator has been destroyed has no live DescriptorSet and its creator's
\* handle is gone; while a set or the handle lives, the strong count of the
\* pool counts them, so the pool is destroyed only after all were dropped.
C11_SetKeepsPoolAlive ==
    /\ dp = "destroyed" => dp_sets = {} /\ ~dp_handle
    /\ dp # "none" => dp_refs = Cardinality(dp_sets) + (IF dp_handle THEN 1 ELSE 0)

\* The pool was destroyed by the drop of its last set, after the creator's
\* handle had been dropped and after at least two sets had been allocated.
C11_Witness ==
    /\ dp = "destroyed"
    /\ dp_last.op = "drop_set"
    /\ dp_next >= 2

\* C12. Command-buffer teardown is not aborted by a fence error: a CommandBuffer
\* dropped outside a panic has waited on its fence and freed the command
\* buffer, command pool, query pool and fence, whatever the wait returned.
C12_TeardownNotAbortedByFenceError ==
    cb = "dropped" /\ ~cb_last.unwinding =>
        /\ "wait_for_fence" \in cb_last.calls
        /\ freed = Handles

\* C13. Teardown during panic: a CommandBuffer, a DescriptorSet or a
\* DescriptorPool dropped while the thread unwinds makes no driver wait, free
\* or destroy call, frees no handle and leaves the native pool and its
\* allocated sets as they were.
C13_TeardownDuringPanic ==
    /\ cb_last.op = "drop" /\ cb_last.unwinding =>
            cb_last.calls = {} /\ freed = {}
    /\ dp_last.op \in {"drop_set", "drop_handle"} /\ dp_last.unwinding =>
            /\ dp_last.calls = {}
            /\ dp = dp_last.before.dp
            /\ dp_allocated = dp_last.before.allocated

\* A CommandBuffer was dropped during a panic, or the last reference to a
\* DescriptorPool was dropped during a panic by the drop of a set.
C13_Witness ==
    \/ cb = "dropped" /\ cb_last.op = "drop" /\ cb_last.unwinding /\ cb_submitted
    \/ /\ dp_last.op = "drop_set" /\ dp_last.unwinding
       /\ dp_refs = 0 /\ dp_last.before.allocated # {}

\* C14. Drain eviction: a call of Drain::next returns (an evicted object or
\* the end of the iteration) and does not fail.
C14_DrainTerminates == ~(last.op = "panic" /\ last.kind = "drain")

\* The idle queue of (kind, key) after the step.
QueueAfter(kind, key) ==
    LET At(map) == IF key \in DOMAIN map THEN map[key] ELSE << >>
    IN  CASE kind = "cmd_pool" -> At(cmd_pools')
          [] kind = "compiler" -> compilers'
          [] kind = "compute" -> At(computes')
          [] kind = "data" -> At(data')
          [] kind = "desc_pool" -> At(desc_pools')
          [] kind = "fence" -> fences'
          [] kind = "graphics" -> At(graphics')
          [] kind = "memory" -> At(memories')
          [] kind = "texture" -> At(textures')

\* The positions of the queue of (kind, key) that satisfy a request for req.
Satisfying(kind, key, req) ==
    {idx \in 1..Len(QueueOf(kind, key)) :
        kind \in CapacityKinds => Capacity(QueueOf(kind, key)[idx]) >= req}

\* C16. Best-fit-by-recency scan order: an acquire served from the idle queue
\* takes the satisfying object closest to the back of the queue and leaves the
\* other idle objects in their order.
C16_ScanFromBack ==
    [][ (Len(leases') = Len(leases) + 1 /\ last'.hit) =>
            LET q == QueueOf(last'.kind, last'.key)
                fit == Satisfying(last'.kind, last'.key, last'.req)
                back == CHOOSE i \in fit : \A j \in fit : j <= i
            IN  /\ last'.obj = q[back]
                /\ QueueAfter(last'.kind, last'.key) = RemoveAt(q, back) ]_vars

\* C17. Capacity of freshly constructed objects: every lease returned by a
\* capacity-parameterised acquire, served from the queue or newly constructed,
\* has at least the requested capacity.
C17_FreshCapacity ==
    (last.op = "acquire" /\ last.kind \in CapacityKinds)
    => Capacity(last.obj) >= last.req

\* C15. Command-buffer lifecycle: a created buffer is idle (fence signaled, no
\* droppables); push_fenced_drop appends its item to the end of the droppable
\* list, destroys nothing and leaves the fence alone; every droppable handed in
\* so far is either in the list (once) or destroyed (once), never both; and
\* drop_fenced leaves the list empty, every droppable registered before it
\* destroyed, and the fence as it was, so that called on an executed buffer
\* (fence signaled) it leaves the buffer idle again.
C15_Lifecycle ==
    /\ [](LET listed == {droppables[i] : i \in 1..Len(droppables)}
              buried == {g.id : g \in graves}
          IN  /\ Cardinality(listed) = Len(droppables)
              /\ listed \cap buried = {}
              /\ listed \cup buried = 1..pushed
              /\ \A id \in buried : Cardinality({g \in graves : g.id = id}) = 1
              /\ cb = "live" /\ cb_last.op = "create" =>
                    cb_fence /\ droppables = << >>)
    /\ [][push_fenced_drop =>
            /\ droppables' = Append(droppables, pushed')
            /\ pushed' = pushed + 1
            /\ graves' = graves
            /\ cb_fence' = cb_fence]_vars
    /\ [][drop_fenced =>
            /\ droppables' = << >>
            /\ {g.id : g \in graves'} = 1..pushed
            /\ \A i \in 1..Len(droppables) :
                  Cardinality({g \in graves' : g.id = droppables[i]}) = 1
            /\ cb_fence' = cb_fence]_vars

\* A submission was executed and drop_fenced then destroyed two droppables,
\* which left the buffer idle: fence signaled, no droppables.
C15_Witness ==
    /\ cb = "live" /\ cb_last.op = "drop_fenced" /\ cb_submitted
    /\ cb_fence /\ ~cb_pending /\ droppables = << >>
    /\ Cardinality(graves) = 2
    /\ \A g \in graves : g.by = "drop_fenced" /\ g.submitted /\ g.executed = Ok(TRUE)

\* C18. Initial command-buffer state: in the state a successful create returns,
\* has_executed reports Ok(true) and the droppable list is empty; and as long
\* as nothing has been submitted with the buffer its fence stays signaled.
C18_InitialState ==
    /\ [](cb = "live" /\ ~cb_submitted => cb_fence)
    /\ [][create /\ cb' = "live" =>
            has_executed' = Ok(TRUE) /\ droppables' = << >> /\ pushed' = pushed]_vars

\* A successful create has just returned.
C18_Witness ==
    /\ cb = "live" /\ cb_last.op = "create" /\ cb_last.res = Ok(TRUE)
    /\ ~cb_submitted /\ device = "ok"

\* C19. Texture warm spare: after a texture acquire that missed, the idle
\* queue of the key holds exactly one object, a spare of that key other than
\* the leased one and held by no lease; and the acquire of the same key made
\* next, with the first lease still held, takes that spare and constructs
\* nothing.
C19_TextureWarmSpare ==
    /\ [](last.op = "acquire" /\ last.kind = "texture" /\ ~last.hit =>
            LET q == QueueOf("texture", last.key)
            IN  /\ Len(q) = 1
                /\ q[1] # last.obj
                /\ objs[q[1]].key = last.key
                /\ LeaseIdxs(q[1]) = {}
                /\ LeaseIdxs(last.obj) # {})
    /\ [][ ( /\ last.op = "acquire" /\ last.kind = "texture" /\ ~last.hit
              /\ Len(leases') = Len(leases) + 1
              /\ last'.key = last.key ) =>
            ( /\ last'.hit
              /\ last'.ncons = 0
              /\ objs' = objs
              /\ last'.obj = QueueOf("texture", last.key)[1]
              /\ LeaseIdxs(last.obj) # {} ) ]_vars

\* The second acquire of a key was served by the spare while the lease of the
\* first acquire was still held: two textures exist, both are leased.
C19_Witness ==
    /\ last.op = "acquire" /\ last.kind = "texture" /\ last.hit /\ last.ncons = 0
    /\ Len(objs) = 2 /\ Len(leases) = 2
    /\ QueueOf("texture", last.key) = << >>

\* C20. Render-pass memoization: no step of the Pool removes or replaces an
\* entry of the render-pass registry, so the builder runs at most once per
\* mode; the stored render passes are distinct objects, and a render_pass call
\* returns the object stored under its mode.
C20_RenderPassMemoized ==
    /\ [](/\ \A m1, m2 \in DOMAIN render_passes :
                render_passes[m1] = render_passes[m2] => m1 = m2
          /\ last.op = "render_pass" =>
                /\ last.key \in DOMAIN render_passes
                /\ last.obj = render_passes[last.key])
    /\ [][\A m \in DOMAIN render_passes :
            m \in DOMAIN render_passes' /\ render_passes'[m] = render_passes[m]]_vars

\* A render_pass call returned the render pass built first after a second
\* mode had been built: a later call for a mode already stored.
C20_Witness ==
    /\ last.op = "render_pass"
    /\ Cardinality(DOMAIN render_passes) = 2
    /\ last.obj = 1

\* Two descriptor-pool keys hold the same (type, count) pairs, each as often.
SamePairs(k1, k2) ==
    /\ Len(k1) = Len(k2)
    /\ \A i \in 1..Len(k1) :
          Cardinality({j \in 1..Len(k1) : k1[j] = k1[i]})
            = Cardinality({j \in 1..Len(k2) : k2[j] = k1[i]})

\* C21. Descriptor-pool key is order-insensitive: the Pool keeps one queue for
\* all orders of the same (type, count) pairs, and a desc_pool request does not
\* construct a pool while an idle pool of the same pairs, in whatever order
\* they were given, has the max_sets it asks for.
C21_OrderInsensitiveKey ==
    /\ \A k1, k2 \in DOMAIN desc_pools : SamePairs(k1, k2) => k1 = k2
    /\ (last.op = "acquire" /\ last.kind = "desc_pool" /\ ~last.hit) =>
          \A k \in DOMAIN desc_pools :
              SamePairs(k, last.key) =>
                  \A idx \in 1..Len(desc_pools[k]) :
                      Capacity(desc_pools[k][idx]) < last.req

\* C22. Pipeline miss resolves its render pass first: after a graphics_sets
\* call that found no fitting idle pipeline, the registry holds the render
\* pass of the requested render_pass_mode; and a call served from the idle
\* queue changes neither the registry nor the set of constructed objects.
C22_MissResolvesRenderPass ==
    /\ [](( /\ last.op \in {"acquire", "panic"} /\ last.kind = "graphics"
            /\ ~last.hit ) =>
              last.key.render_pass_mode \in DOMAIN render_passes)
    /\ [][ (Len(leases') = Len(leases) + 1 /\ last'.kind = "graphics" /\ last'.hit) =>
              (render_passes' = render_passes /\ objs' = objs) ]_vars

\* C25. Acquire failure propagation: an acquire whose constructor fails in the
\* driver returns to its caller (with an error value) rather than unwinding,
\* after one construction attempt and with the idle queues as they were.
C25_FailurePropagates ==
    ~( /\ driver_faults
       /\ last.op = "panic" /\ last.kind \in Kinds
       /\ (last.kind = "graphics" => HasCtor(last.key.graphics_mode)) )

\* The kinds whose idle queues are kept in a map, one queue per key.
KeyedKinds == Kinds \ {"compiler", "fence"}

\* The keys that have a queue in the map of a kind, before and after the step.
KeysOf(kind) ==
    CASE kind = "cmd_pool" -> DOMAIN cmd_pools
      [] kind = "compute" -> DOMAIN computes
      [] kind = "data" -> DOMAIN data
      [] kind = "desc_pool" -> DOMAIN desc_pools
      [] kind = "graphics" -> DOMAIN graphics
      [] kind = "memory" -> DOMAIN memories
      [] kind = "texture" -> DOMAIN textures

KeysAfter(kind) ==
    CASE kind = "cmd_pool" -> DOMAIN cmd_pools'
      [] kind = "compute" -> DOMAIN computes'
      [] kind = "data" -> DOMAIN data'
      [] kind = "desc_pool" -> DOMAIN desc_pools'
      [] kind = "graphics" -> DOMAIN graphics'
      [] kind = "memory" -> DOMAIN memories'
      [] kind = "texture" -> DOMAIN textures'

\* C23. Lazy, persistent queues: a queue enters a map of the Pool only in a
\* step that is an acquire of its own (kind, key), and no step removes a queue:
\* the set of keys of every kind only grows.
C23_LazyPersistentQueues ==
    [][\A kind \in KeyedKinds :
          /\ KeysOf(kind) \subseteq KeysAfter(kind)
          /\ \A k \in KeysAfter(kind) \ KeysOf(kind) :
                /\ last'.op \in {"acquire", "panic"}
                /\ last'.kind = kind
                /\ last'.key = k ]_vars

\* A lease was dropped while its kind holds the queues of two keys, one of
\* them empty.
C23_Witness ==
    /\ last.op = "drop" /\ last.kind \in KeyedKinds
    /\ Cardinality(KeysOf(last.kind)) = 2
    /\ \E k \in KeysOf(last.kind) : QueueOf(last.kind, k) = << >>

\* C24. Fence-status errors become values: a call of has_executed returns
\* Ok(status) with the fence's status when the driver reports one and
\* Err(InvalidData) when the driver reports device-lost or any other error; it
\* does not panic and changes neither the droppables nor the fence.
C24_FenceStatusErrorsAreValues ==
    [][HasExecuted =>
          /\ device = "ok" => cb_last'.res = Ok(cb_fence)
          /\ device \in {"lost", "failing"} => cb_last'.res = Err("InvalidData")
          /\ panicking' = panicking
          /\ droppables' = droppables /\ graves' = graves
          /\ cb_fence' = cb_fence /\ cb' = cb ]_vars

\* has_executed was called on a lost device while work was pending and a
\* droppable was registered, and returned the error value.
C24_Witness ==
    /\ cb = "live" /\ cb_last.op = "has_executed" /\ cb_last.res = Err("InvalidData")
    /\ device = "lost" /\ cb_pending /\ droppables # << >>

\* C26. Key isolation: every object, leased or idle, sits under the key of its
\* kind it was constructed with, so an acquire returns only objects constructed
\* for the key it asks for; a texture lease has exactly the dims, format,
\* usage, layers, mips and samples of its request.
C26_KeyIsolation ==
    /\ \A i \in 1..Len(leases) :
          /\ objs[leases[i].obj].kind = leases[i].kind
          /\ objs[leases[i].obj].key = leases[i].key
    /\ \A kind \in KeyedKinds : \A k \in KeysOf(kind) :
          \A idx \in 1..Len(QueueOf(kind, k)) :
              /\ objs[QueueOf(kind, k)[idx]].kind = kind
              /\ objs[QueueOf(kind, k)[idx]].key = k
    /\ last.op = "acquire" =>
          /\ objs[last.obj].kind = last.kind
          /\ objs[last.obj].key = last.key
          /\ last.kind = "texture" => objs[last.obj].key = last.req

\* A texture acquire was served from the queue of its key while the queue of
\* another texture key holds an idle texture.
C26_Witness ==
    /\ last.op = "acquire" /\ last.hit /\ last.kind = "texture"
    /\ \E k \in KeysOf(last.kind) : k # last.key /\ QueueOf(last.kind, k) # << >>

\* The keys under which a kind keeps queues; the kinds with a single queue
\* have the one key None.
QueueKeysOf(kind) == IF kind \in KeyedKinds THEN KeysOf(kind) ELSE {None}

\* C27. Object conservation: for every idle queue, the objects constructed
\* for it are as many as the objects idle in it plus the live leases bound to
\* it; every object constructed is in exactly one place, a queue or a lease.
C27_ObjectConservation ==
    /\ \A o \in 1..Len(objs) :
          /\ IdleCount(o) + Cardinality(LeaseIdxs(o)) = 1
          /\ objs[o].key \in QueueKeysOf(objs[o].kind)
    /\ \A kind \in Kinds : \A k \in QueueKeysOf(kind) :
          Cardinality({o \in 1..Len(objs) : objs[o].kind = kind /\ objs[o].key = k})
            = Len(QueueOf(kind, k))
              + Cardinality({i \in 1..Len(leases) :
                               leases[i].kind = kind /\ leases[i].key = k})

\* After an acquire served from a queue, three objects exist: some idle, some
\* leased.
C27_Witness ==
    /\ last.op = "acquire" /\ last.hit
    /\ Len(objs) = 3
    /\ \E o \in 1..Len(objs) : IdleCount(o) = 1
    /\ Len(leases) = 2

\* C28. Recycled fence is reset: a fence returned by Pool::fence is
\* unsignaled, also when it was taken from the idle queue and its previous
\* lease was dropped with the fence signaled.
C28_RecycledFenceReset ==
    (last.op = "acquire" /\ last.kind = "fence") => ~objs[last.obj].mark

\* A fence that was released signaled was leased again.
C28_Witness ==
    last.op = "acquire" /\ last.kind = "fence" /\ last.hit /\ last.stale
====
